---- MODULE Spec2Model ----
(***************************************************************************)
(* Model of the geospatial feature engine of aluguel-se-br                 *)
(* (src/src/features/feature_engineer.py, class FeatureEngineer) and of    *)
(* the callers that drive it.                                              *)
(*                                                                         *)
(* Number representation.  The program works on IEEE doubles; the model    *)
(* uses scaled integers:                                                   *)
(*   - a coordinate is an integer number of 0.005 degree steps;            *)
(*   - a distance, a radius or a threshold is an integer number of metres  *)
(*     (the kilometre value times 1000);                                   *)
(*   - a grid aggregate (mean, median, std) is in hundredths;              *)
(*   - a score is in 1/10000 (1 / (km + 0.1) is 10^7 \div (m + 100)).      *)
(* A nullable cell (a pandas float column that may hold NaN) is <<v>> when *)
(* it holds v and <<>> when it is NaN.                                     *)
(***************************************************************************)
EXTENDS Integers, Sequences, FiniteSets, TLC

VARIABLES
    grid_size,              \* FeatureEngineer.grid_size (coordinate steps)
    density_radius_km,      \* FeatureEngineer.density_radius_km (metres)
    distance_threshold_km,  \* FeatureEngineer.distance_threshold_km (metres)
    input_df,               \* the property table the caller passes in
    pois,                   \* the caller's POI mapping, in dict order
    df,                     \* the table returned by the last call
    pc,                     \* position of the caller
    calls,                  \* methods that have returned so far, in order
    run_args,               \* the flags passed to run_full_pipeline
    run_pc,                 \* position of run_full_pipeline
    run_step,               \* the step run_full_pipeline is at (1..8, 9 = end)
    pipeline_results        \* the pipeline_results dict of run_full_pipeline

vars == <<grid_size, density_radius_km, distance_threshold_km,
          input_df, pois, df, pc, calls,
          run_args, run_pc, run_step, pipeline_results>>

---------------------------------------------------------------------------
(* Bounds of the model                                                     *)

MaxProps == 2
MaxGridProps == 3
MaxPois == 2

(* Program constants                                                       *)

GRID_SIZE == 2
DENSITY_RADIUS_KM == 1000
DISTANCE_THRESHOLD_KM == 10000
EPSILON == 100
SCORE_ONE == 10000000

NaN == <<>>
IsNaN(v) == v = <<>>
Num(v) == <<v>>
Val(v) == v[1]

(* a coordinate that is NaN or infinite (outside every coordinate range)   *)
NonFinite == 1000000
isfinite(v) == v # NonFinite

---------------------------------------------------------------------------
(* Coordinates: five places around (-23.55, -46.635), in 0.005 degree      *)
(* steps.  PlaceB and PlaceC lie 1 and 2 steps north of PlaceA, PlaceD 20  *)
(* steps north, PlaceE one step east of PlaceB.                           *)

PlaceA == [latitude |-> -4710, longitude |-> -9327]
PlaceB == [latitude |-> -4709, longitude |-> -9327]
PlaceC == [latitude |-> -4708, longitude |-> -9327]
PlaceD == [latitude |-> -4690, longitude |-> -9327]
PlaceE == [latitude |-> -4709, longitude |-> -9326]

(* two places on the same meridian, one step south and one step north of   *)
(* the equator                                                             *)
PlaceS == [latitude |-> -1, longitude |-> -9327]
PlaceN == [latitude |-> 1, longitude |-> -9327]

GeoPlaces == {PlaceA, PlaceB, PlaceD}
GridPlaces == {PlaceB, PlaceC, PlaceE}
PoiPlaces == {PlaceA, PlaceC}

PlaceIndex(p) ==
    CASE p = PlaceA -> 1 [] p = PlaceB -> 2 [] p = PlaceC -> 3
      [] p = PlaceD -> 4 [] p = PlaceE -> 5
      [] p = PlaceS -> 6 [] p = PlaceN -> 7

(* Great-circle distance in metres (haversine formula, Earth radius 6371   *)
(* km, rounded to the metre) between the seven places.                     *)
HaversineTable ==
    << <<      0,     556,    1112,   11119,     754, 2618085, 2619196>>,
       <<    556,       0,     556,   10564,     510, 2617529, 2618641>>,
       <<   1112,     556,       0,   10008,     754, 2616973, 2618085>>,
       <<  11119,   10564,   10008,       0,   10576, 2606965, 2608077>>,
       <<    754,     510,     754,   10576,       0, 2617529, 2618641>>,
       <<2618085, 2617529, 2616973, 2606965, 2617529,       0,    1112>>,
       <<2619196, 2618641, 2618085, 2608077, 2618641,    1112,       0>> >>

Coords(r) == [latitude |-> r["latitude"], longitude |-> r["longitude"]]

haversine(p, q) == HaversineTable[PlaceIndex(Coords(p))][PlaceIndex(Coords(q))]

---------------------------------------------------------------------------
(* Column names                                                            *)

DistCol(poi_type) == "dist_nearest_" \o poi_type \o "_km"
CountCol(poi_type) == "count_" \o poi_type \o "_1km"

PoiTypes == {"subway", "supermarket"}

Columns(table) == DOMAIN table[1]
SetCol(row, col, v) == (col :> v) @@ row

(* a table given row by row, as a sequence (evaluated once)                *)
AsTable(f) == SubSeq(f, 1, Len(f))

---------------------------------------------------------------------------
(* sklearn BallTree(metric='haversine') over one category's POIs           *)

(* sklearn's check_array, applied by BallTree(...), tree.query and         *)
(* tree.query_radius to their array argument: a NaN or an infinity there   *)
(* raises ValueError                                                       *)
check_array(points) ==
    \A k \in 1..Len(points) :
        isfinite(points[k]["latitude"]) /\ isfinite(points[k]["longitude"])

(* the loop over pois.items() reaches a tree that raises: the first        *)
(* non-empty category whose POIs, or whose query points, are not finite    *)
ball_tree_raises(table, pois_) ==
    \E e \in 1..Len(pois_) :
        /\ Len(pois_[e].gdf) > 0
        /\ ~check_array(pois_[e].gdf) \/ ~check_array(table)

RECURSIVE tree_query(_, _)
(* tree.query(point, k=1): distance to the nearest POI of a non-empty gdf  *)
tree_query(point, poi_gdf) ==
    IF Len(poi_gdf) = 1
    THEN haversine(point, poi_gdf[1])
    ELSE LET rest == tree_query(point, Tail(poi_gdf))
             d == haversine(point, poi_gdf[1])
         IN  IF d <= rest THEN d ELSE rest

RECURSIVE tree_query_radius(_, _, _)
(* tree.query_radius(point, r, count_only=True)                            *)
tree_query_radius(point, poi_gdf, r) ==
    IF poi_gdf = <<>>
    THEN 0
    ELSE (IF haversine(point, poi_gdf[1]) <= r THEN 1 ELSE 0)
         + tree_query_radius(point, Tail(poi_gdf), r)

---------------------------------------------------------------------------
(* FeatureEngineer.calculate_distances                                     *)

(* variant: a nearest POI exactly at the threshold is dropped             *)
distance_cell_ge(row, poi_gdf) ==
    IF Len(poi_gdf) = 0
    THEN NaN
    ELSE LET distances_km == tree_query(row, poi_gdf)
         IN  IF distances_km >= distance_threshold_km
             THEN NaN
             ELSE Num(distances_km)

(* variant: an empty category yields the number 0 instead of NaN           *)
distance_cell_empty_zero(row, poi_gdf) ==
    IF Len(poi_gdf) = 0
    THEN Num(0)
    ELSE LET distances_km == tree_query(row, poi_gdf)
         IN  IF distances_km > distance_threshold_km
             THEN NaN
             ELSE Num(distances_km)

(* variant: a category processed after another one gets no distance        *)
distance_cell_first_only(row, poi_gdf) ==
    IF Len(poi_gdf) = 0 \/ DOMAIN row \cap {DistCol(t) : t \in PoiTypes} # {}
    THEN NaN
    ELSE LET distances_km == tree_query(row, poi_gdf)
         IN  IF distances_km > distance_threshold_km
             THEN NaN
             ELSE Num(distances_km)

(* variant: the nearest distance is kept however large it is               *)
distance_cell_no_threshold(row, poi_gdf) ==
    IF Len(poi_gdf) = 0
    THEN NaN
    ELSE Num(tree_query(row, poi_gdf))

distance_cell(row, poi_gdf) ==
    IF Len(poi_gdf) = 0
    THEN NaN
    ELSE LET distances_km == tree_query(row, poi_gdf)
         IN  IF distances_km > distance_threshold_km
             THEN NaN
             ELSE Num(distances_km)

RECURSIVE calculate_distances(_, _)
calculate_distances(table, pois_) ==
    IF pois_ = <<>>
    THEN table
    ELSE LET poi_type == pois_[1].type
             poi_gdf == pois_[1].gdf
             with_col == AsTable([i \in 1..Len(table) |->
                            SetCol(table[i], DistCol(poi_type),
                                   distance_cell(table[i], poi_gdf))])
         IN  calculate_distances(with_col, Tail(pois_))

(* FeatureEngineer.calculate_densities                                     *)

(* variant: the radius query uses the distance threshold                   *)
density_cell_threshold(row, poi_gdf) ==
    IF Len(poi_gdf) = 0
    THEN 0
    ELSE tree_query_radius(row, poi_gdf, distance_threshold_km)

(* variant: a POI exactly at the radius is not counted                     *)
density_cell_exclusive(row, poi_gdf) ==
    IF Len(poi_gdf) = 0
    THEN 0
    ELSE Cardinality({k \in 1..Len(poi_gdf) :
                         haversine(row, poi_gdf[k]) < density_radius_km})

density_cell(row, poi_gdf) ==
    IF Len(poi_gdf) = 0
    THEN 0
    ELSE tree_query_radius(row, poi_gdf, density_radius_km)

RECURSIVE calculate_densities(_, _)
calculate_densities(table, pois_) ==
    IF pois_ = <<>>
    THEN table
    ELSE LET poi_type == pois_[1].type
             poi_gdf == pois_[1].gdf
             with_col == AsTable([i \in 1..Len(table) |->
                            SetCol(table[i], CountCol(poi_type),
                                   density_cell(table[i], poi_gdf))])
         IN  calculate_densities(with_col, Tail(pois_))

---------------------------------------------------------------------------
(* pandas / numpy helpers used by create_grid_features                     *)

(* numpy round of n / d (d > 0): nearest integer, ties to even             *)
round_half_even(n, d) ==
    LET q == n \div d
        r == n % d
    IN  IF 2 * r < d THEN q
        ELSE IF 2 * r > d THEN q + 1
        ELSE IF q % 2 = 0 THEN q ELSE q + 1

(* Series.astype(str) of a float: the sign (kept by a negative zero) and   *)
(* the magnitude                                                           *)
float_str(v, negative) ==
    IF ~isfinite(v)
    THEN [sign |-> "", digits |-> NonFinite]
    ELSE [sign |-> IF negative THEN "-" ELSE "", digits |-> IF v < 0 THEN -v ELSE v]

RECURSIVE seq_sum(_)
seq_sum(s) == IF s = <<>> THEN 0 ELSE s[1] + seq_sum(Tail(s))

RECURSIVE seq_sum_sq(_)
seq_sum_sq(s) == IF s = <<>> THEN 0 ELSE s[1] * s[1] + seq_sum_sq(Tail(s))

RECURSIVE isqrt_between(_, _, _)
isqrt_between(n, lo, hi) ==
    IF lo = hi
    THEN lo
    ELSE LET mid == (lo + hi + 1) \div 2
         IN  IF mid * mid <= n
             THEN isqrt_between(n, mid, hi)
             ELSE isqrt_between(n, lo, mid - 1)

(* floor of the square root                                                *)
isqrt(n) == isqrt_between(n, 0, 46340)

(* mean of a non-empty sequence of integers, in hundredths                 *)
agg_mean(values) ==
    IF values = <<>> THEN NaN
    ELSE Num((seq_sum(values) * 100) \div Len(values))

(* variant: the middle is taken in row order, without sorting              *)
agg_median_unsorted(values) ==
    IF values = <<>> THEN NaN
    ELSE LET n == Len(values)
         IN  IF n % 2 = 1
             THEN Num(values[(n + 1) \div 2] * 100)
             ELSE Num(((values[n \div 2] + values[n \div 2 + 1]) * 100) \div 2)

(* median: middle of the sorted values, mean of the two middle ones when   *)
(* their number is even; in hundredths                                     *)
agg_median(values) ==
    IF values = <<>> THEN NaN
    ELSE LET sorted == SortSeq(values, LAMBDA a, b : a < b)
             n == Len(sorted)
         IN  IF n % 2 = 1
             THEN Num(sorted[(n + 1) \div 2] * 100)
             ELSE Num(((sorted[n \div 2] + sorted[n \div 2 + 1]) * 100) \div 2)

(* sample standard deviation (ddof = 1), NaN for fewer than two values;    *)
(* in hundredths                                                           *)
agg_std(values) ==
    LET n == Len(values)
    IN  IF n < 2 THEN NaN
        ELSE Num(isqrt(((n * seq_sum_sq(values) - seq_sum(values) * seq_sum(values))
                          * 10000) \div (n * (n - 1))))

agg_count(values) == Num(Len(values))

(* Series.median(): median of the non-null cells of a column, NaN when     *)
(* every cell is null; the cells are already in hundredths                 *)
column_median(table, col) ==
    LET cells == AsTable([i \in 1..Len(table) |-> table[i][col]])
        present == SelectSeq(cells, LAMBDA c : ~IsNaN(c))
        sorted == SortSeq([i \in 1..Len(present) |-> Val(present[i])],
                          LAMBDA a, b : a < b)
        n == Len(sorted)
    IN  IF n = 0 THEN NaN
        ELSE IF n % 2 = 1 THEN Num(sorted[(n + 1) \div 2])
        ELSE Num((sorted[n \div 2] + sorted[n \div 2 + 1]) \div 2)

---------------------------------------------------------------------------
(* FeatureEngineer.create_grid_features                                    *)

GridAggregates ==
    << <<"price", "mean">>, <<"price", "median">>, <<"price", "std">>,
       <<"price", "count">>,
       <<"bedrooms", "mean">>, <<"bedrooms", "median">>,
       <<"bathrooms", "mean">>, <<"bathrooms", "median">> >>

(* variant: the statistic is named before the attribute                    *)
GridCol_stat_first(agg) == "grid_" \o agg[2] \o "_" \o agg[1]

GridCol(agg) == "grid_" \o agg[1] \o "_" \o agg[2]

GridCols == {GridCol(GridAggregates[k]) : k \in 1..Len(GridAggregates)}

(* (v / grid_size).round() * grid_size; a division by 0 gives an infinity  *)
(* or NaN, and NaN once multiplied by 0                                    *)
grid_coord(v) ==
    IF ~isfinite(v) \/ grid_size = 0
    THEN NonFinite
    ELSE IF grid_size < 0
    THEN round_half_even(-v, -grid_size) * grid_size
    ELSE round_half_even(v, grid_size) * grid_size

grid_id_of(row) ==
    <<float_str(grid_coord(row["latitude"]), row["latitude"] < 0),
      float_str(grid_coord(row["longitude"]), row["longitude"] < 0)>>

(* df_with_grid after lines 153-158                                        *)
with_grid_id(table) ==
    AsTable([i \in 1..Len(table) |->
        SetCol(SetCol(SetCol(table[i],
            "grid_lat", grid_coord(table[i]["latitude"])),
            "grid_lon", grid_coord(table[i]["longitude"])),
            "grid_id", grid_id_of(table[i]))])

(* the values of one attribute over the rows of one group, in row order    *)
group_values(table, gid, attr) ==
    LET members == SelectSeq(table, LAMBDA r : r["grid_id"] = gid)
    IN  [k \in 1..Len(members) |-> members[k][attr]]

aggregate(values, stat) ==
    CASE stat = "mean" -> agg_mean(values)
      [] stat = "median" -> agg_median(values)
      [] stat = "std" -> agg_std(values)
      [] stat = "count" -> agg_count(values)

(* variant: a running aggregate, over the rows up to the current one       *)
RECURSIVE merge_grid_features_running(_, _, _)
merge_grid_features_running(table, grouped, k) ==
    IF k > Len(GridAggregates)
    THEN table
    ELSE LET agg == GridAggregates[k]
             with_col == AsTable([i \in 1..Len(table) |->
                SetCol(table[i], GridCol(agg),
                       aggregate(group_values(SubSeq(grouped, 1, i),
                                              table[i]["grid_id"], agg[1]),
                                 agg[2]))])
         IN  merge_grid_features_running(with_col, grouped, k + 1)

(* groupby('grid_id').agg(...) followed by the left merge on grid_id       *)
RECURSIVE merge_grid_features(_, _, _)
merge_grid_features(table, grouped, k) ==
    IF k > Len(GridAggregates)
    THEN table
    ELSE LET agg == GridAggregates[k]
             with_col == AsTable([i \in 1..Len(table) |->
                SetCol(table[i], GridCol(agg),
                       aggregate(group_values(grouped, table[i]["grid_id"], agg[1]),
                                 agg[2]))])
         IN  merge_grid_features(with_col, grouped, k + 1)

(* the fillna loop of lines 174-176                                        *)
RECURSIVE fill_grid_features(_, _)
fill_grid_features(table, k) ==
    IF k > Len(GridAggregates)
    THEN table
    ELSE LET col == GridCol(GridAggregates[k])
             fill == column_median(table, col)
             filled == AsTable([i \in 1..Len(table) |->
                IF IsNaN(table[i][col]) THEN SetCol(table[i], col, fill)
                ELSE table[i]])
         IN  fill_grid_features(filled, k + 1)

(* groupby(...).agg({...}) raises KeyError for a column the table lacks    *)
grid_raises(table) == ~({"price", "bedrooms", "bathrooms"} \subseteq Columns(table))

(* variant: the rows come out cell by cell, the first row's cell first     *)
create_grid_features_by_cell(table) ==
    LET df_with_grid == with_grid_id(table)
        merged == merge_grid_features(df_with_grid, df_with_grid, 1)
        filled == fill_grid_features(merged, 1)
    IN  SelectSeq(filled, LAMBDA r : r["grid_id"] = filled[1]["grid_id"])
        \o SelectSeq(filled, LAMBDA r : r["grid_id"] # filled[1]["grid_id"])

create_grid_features(table) ==
    LET df_with_grid == with_grid_id(table)
        merged == merge_grid_features(df_with_grid, df_with_grid, 1)
    IN  fill_grid_features(merged, 1)

---------------------------------------------------------------------------
(* FeatureEngineer.create_accessibility_scores                             *)

(* the columns whose name starts with 'dist_nearest_'                      *)
distance_cols(table) == Columns(table) \cap {DistCol(t) : t \in PoiTypes}

(* np.nan_to_num(distances, nan=self.distance_threshold_km) of one cell    *)
nan_to_num(cell) == IF IsNaN(cell) THEN distance_threshold_km ELSE Val(cell)

RECURSIVE set_sum(_, _)
set_sum(row, cols) ==
    IF cols = {} THEN 0
    ELSE LET c == CHOOSE x \in cols : TRUE
         IN  nan_to_num(row[c]) + set_sum(row, cols \ {c})

(* avg_distances of one row, in metres (lines 209-212)                     *)
avg_distance(row, cols) ==
    LET valid_any == \E c \in cols : nan_to_num(row[c]) > 0
    IN  IF valid_any
        THEN set_sum(row, cols) \div Cardinality(cols)
        ELSE distance_threshold_km

inverse_score(distance) == SCORE_ONE \div (distance + EPSILON)

(* variant: a null subway distance is replaced by the density radius       *)
transport_score_fill_radius(row) ==
    IF DistCol("subway") \in DOMAIN row
    THEN inverse_score(IF IsNaN(row[DistCol("subway")]) THEN density_radius_km
                       ELSE Val(row[DistCol("subway")]))
    ELSE 0

(* variant: a null subway distance scores 0, like a missing column         *)
transport_score_nan_zero(row) ==
    IF DistCol("subway") \in DOMAIN row /\ ~IsNaN(row[DistCol("subway")])
    THEN inverse_score(Val(row[DistCol("subway")]))
    ELSE 0

(* variant: a missing subway column scores like a null subway distance     *)
transport_score_missing_threshold(row) ==
    IF DistCol("subway") \in DOMAIN row
    THEN inverse_score(nan_to_num(row[DistCol("subway")]))
    ELSE inverse_score(distance_threshold_km)

transport_score_of(row) ==
    IF DistCol("subway") \in DOMAIN row
    THEN inverse_score(nan_to_num(row[DistCol("subway")]))
    ELSE 0

(* variant: no early return when the table has no distance column         *)
create_accessibility_scores_no_skip(table) ==
    LET cols == distance_cols(table)
    IN  AsTable([i \in 1..Len(table) |->
            SetCol(SetCol(table[i],
                "accessibility_score",
                inverse_score(avg_distance(table[i], cols))),
                "transport_score", transport_score_of(table[i]))])

(* variant: a property with no POI within the threshold scores 0           *)
create_accessibility_scores_zero_far(table) ==
    LET cols == distance_cols(table)
    IN  IF cols = {}
        THEN table
        ELSE AsTable([i \in 1..Len(table) |->
                SetCol(SetCol(table[i],
                    "accessibility_score",
                    IF \A c \in cols : IsNaN(table[i][c]) THEN 0
                    ELSE inverse_score(avg_distance(table[i], cols))),
                    "transport_score", transport_score_of(table[i]))])

create_accessibility_scores(table) ==
    LET cols == distance_cols(table)
    IN  IF cols = {}
        THEN table
        ELSE AsTable([i \in 1..Len(table) |->
                SetCol(SetCol(table[i],
                    "accessibility_score",
                    inverse_score(avg_distance(table[i], cols))),
                    "transport_score", transport_score_of(table[i]))])

---------------------------------------------------------------------------
(* FeatureEngineer.create_interaction_features                             *)

(* variant: an interaction whose inputs are absent is added as 0           *)
interaction_row_placeholder(row) ==
    LET cols == DOMAIN row
        r1 == SetCol(row, "price_per_bedroom_accessibility",
                     IF "price_per_bedroom" \in cols /\ "accessibility_score" \in cols
                     THEN row["price_per_bedroom"] * row["accessibility_score"]
                     ELSE 0)
        r2 == SetCol(r1, "bedroom_bathroom_ratio",
                     IF "bedrooms" \in cols /\ "bathrooms" \in cols
                     THEN (row["bedrooms"] * 1000) \div (row["bathrooms"] * 10 + 1)
                     ELSE 0)
        r3 == SetCol(r2, "price_transport_interaction",
                     IF DistCol("subway") \in cols /\ "price" \in cols
                     THEN IF IsNaN(row[DistCol("subway")]) THEN NaN
                          ELSE Num(row["price"] * Val(row[DistCol("subway")]))
                     ELSE NaN)
    IN  r3

interaction_row(row) ==
    LET cols == DOMAIN row
        r1 == IF "price_per_bedroom" \in cols /\ "accessibility_score" \in cols
              THEN SetCol(row, "price_per_bedroom_accessibility",
                          row["price_per_bedroom"] * row["accessibility_score"])
              ELSE row
        r2 == IF "bedrooms" \in cols /\ "bathrooms" \in cols
              THEN SetCol(r1, "bedroom_bathroom_ratio",
                          (row["bedrooms"] * 1000) \div (row["bathrooms"] * 10 + 1))
              ELSE r1
        r3 == IF DistCol("subway") \in cols /\ "price" \in cols
              THEN SetCol(r2, "price_transport_interaction",
                          IF IsNaN(row[DistCol("subway")]) THEN NaN
                          ELSE Num(row["price"] * Val(row[DistCol("subway")])))
              ELSE r2
    IN  r3

create_interaction_features(table) ==
    AsTable([i \in 1..Len(table) |-> interaction_row(table[i])])

---------------------------------------------------------------------------
(* TemporalFeatureEngineer, ReviewFeatureEngineer, AmenityFeatureEngineer  *)

(* sin and cos of 2 pi m / 12 and of 2 pi d / 7, in thousandths            *)
MonthSin == <<500, 866, 1000, 866, 500, 0, -500, -866, -1000, -866, -500, 0>>
MonthCos == <<866, 500, 0, -500, -866, -1000, -866, -500, 0, 500, 866, 1000>>
DaySin == <<0, 782, 975, 434, -434, -975, -782>>
DayCos == <<1000, 623, -223, -901, -901, -223, 623>>

(* the values pd.to_datetime('today') takes in the model                   *)
Dates == {[month |-> 1, day_of_week |-> 5], [month |-> 7, day_of_week |-> 2]}

_get_season(month) ==
    IF month \in {12, 1, 2} THEN "summer"
    ELSE IF month \in {3, 4, 5} THEN "autumn"
    ELSE IF month \in {6, 7, 8} THEN "winter"
    ELSE "spring"

add_date_features(table, today) ==
    AsTable([i \in 1..Len(table) |->
        ("current_date" :> today) @@ ("month" :> today.month)
        @@ ("day_of_week" :> today.day_of_week)
        @@ ("is_weekend" :> IF today.day_of_week \in {5, 6} THEN 1 ELSE 0)
        @@ ("month_sin" :> MonthSin[today.month])
        @@ ("month_cos" :> MonthCos[today.month])
        @@ ("day_sin" :> DaySin[today.day_of_week + 1])
        @@ ("day_cos" :> DayCos[today.day_of_week + 1])
        @@ table[i]])

add_seasonal_features(table, today) ==
    AsTable([i \in 1..Len(table) |->
        LET row == IF "month" \in DOMAIN table[i] THEN table[i]
                   ELSE SetCol(table[i], "month", today.month)
            season == _get_season(row["month"])
        IN  ("season" :> season)
            @@ ("is_high_season" :> IF season = "summer" THEN 1 ELSE 0)
            @@ ("quarter" :> (row["month"] - 1) \div 3 + 1)
            @@ row])

(* add_booking_patterns, add_all_review_features and add_amenity_features  *)
(* only act on availability, review, host and amenities columns; a table   *)
(* that carries none of them is returned as a copy                         *)
add_all_temporal_features(table, today) ==
    add_seasonal_features(add_date_features(table, today), today)

add_all_review_features(table) == table

add_amenity_features(table) == table

---------------------------------------------------------------------------
(* FeatureEngineer.create_all_features, run at the date today              *)

(* lines 280-284                                                           *)
geospatial_features(table, pois_) ==
    create_interaction_features(
        create_accessibility_scores(
            create_grid_features(
                calculate_densities(calculate_distances(table, pois_), pois_))))

create_all_features(table, pois_, today) ==
    LET df_features == IF pois_ # <<>> THEN geospatial_features(table, pois_)
                       ELSE table
    IN  add_amenity_features(
            add_all_review_features(add_all_temporal_features(df_features, today)))

---------------------------------------------------------------------------
(* Inputs                                                                  *)

GeoProfiles == {[price |-> 100, bedrooms |-> 1, bathrooms |-> 1]}
GridProfiles == {[price |-> 100, bedrooms |-> 1, bathrooms |-> 1],
                 [price |-> 200, bedrooms |-> 2, bathrooms |-> 2]}

PropertyRows(places, profiles) ==
    {[latitude |-> p.latitude, longitude |-> p.longitude, price |-> a.price,
      bedrooms |-> a.bedrooms, bathrooms |-> a.bathrooms] :
        p \in places, a \in profiles}

(* the non-empty tables of at most max rows                                *)
Tables(rows, max) == UNION {[1..n -> rows] : n \in 1..max}

(* one category's POI collection: at most MaxPois points, listed from    *)
(* south to north                                                          *)
PoiCollections ==
    {g \in UNION {[1..n -> PoiPlaces] : n \in 0..MaxPois} :
        \A k \in 1..(Len(g) - 1) : PlaceIndex(g[k]) <= PlaceIndex(g[k + 1])}

(* a POI mapping in dict order: no, one or two categories                  *)
PoiMaps ==
    {<<>>}
    \cup {<<[type |-> t, gdf |-> g]>> : t \in PoiTypes, g \in PoiCollections}
    \cup {<<[type |-> "subway", gdf |-> g1], [type |-> "supermarket", gdf |-> g2]>> :
            g1 \in PoiCollections, g2 \in PoiCollections}

GridPoiMaps ==
    {<<[type |-> "subway", gdf |-> <<PlaceA>>],
       [type |-> "supermarket", gdf |-> <<PlaceA, PlaceC>>]>>}

(* FeatureEngineer(): the defaults of config.py, and the custom values of  *)
(* a caller whose radius and threshold are distances that occur            *)
Configs ==
    {[grid_size |-> GRID_SIZE, density_radius_km |-> DENSITY_RADIUS_KM,
      distance_threshold_km |-> DISTANCE_THRESHOLD_KM],
     [grid_size |-> GRID_SIZE, density_radius_km |-> 556,
      distance_threshold_km |-> 1112]}

Methods == {"calculate_distances", "calculate_densities", "create_grid_features",
            "create_accessibility_scores", "create_interaction_features"}

(* run_full_pipeline has not been called; its flags default to True        *)
run_not_started ==
    /\ run_pc = "idle"
    /\ run_step = 1
    /\ pipeline_results = [steps_completed |-> <<>>, errors |-> <<>>]

run_unchanged == UNCHANGED <<run_args, run_pc, run_step, pipeline_results>>

InitWith(tables, maps, configs) ==
    /\ run_args = [download_data |-> TRUE, extract_pois |-> TRUE,
                   train_models |-> TRUE, create_visualizations |-> TRUE]
    /\ run_not_started
    /\ \E c \in configs :
          /\ grid_size = c.grid_size
          /\ density_radius_km = c.density_radius_km
          /\ distance_threshold_km = c.distance_threshold_km
    /\ input_df \in tables
    /\ pois \in maps
    /\ df = input_df
    /\ pc = "idle"
    /\ calls = <<>>

(* a property and a POI whose latitude is not finite                       *)
PlaceNaN == [latitude |-> NonFinite, longitude |-> -9327]

(* batches with a property without a finite latitude, with or without a    *)
(* month column of their own                                               *)
(* price_per_bedroom as DataProcessor adds it: price / (bedrooms + 1)      *)
with_price_per_bedroom(r) ==
    SetCol(r, "price_per_bedroom", r["price"] \div (r["bedrooms"] + 1))

(* a row without its bathrooms column                                      *)
without_bathrooms(r) == [c \in DOMAIN r \ {"bathrooms"} |-> r[c]]

EdgeTables ==
    LET rows == PropertyRows({PlaceA, PlaceNaN}, GeoProfiles)
    IN  Tables(rows, MaxProps)
        \cup Tables({SetCol(r, "month", 3) : r \in rows}, MaxProps)
        \cup Tables({with_price_per_bedroom(r) : r \in rows}, MaxProps)
        \cup Tables({without_bathrooms(r) : r \in rows}, MaxProps)
        \cup Tables(PropertyRows({PlaceS, PlaceN}, GeoProfiles), MaxProps)

(* mappings whose subway category is empty, sound, or holds one POI        *)
(* without a finite latitude, alone or before a sound supermarket category *)
EdgePoiMaps ==
    LET subways == {<<>>, <<PlaceA>>, <<PlaceA, PlaceNaN>>}
    IN  {<<>>}
        \cup {<<[type |-> "subway", gdf |-> g]>> : g \in subways}
        \cup {<<[type |-> "subway", gdf |-> g],
                [type |-> "supermarket", gdf |-> <<PlaceC>>]>> : g \in subways}

(* FeatureEngineer(grid_size=..., density_radius_km=...): __init__ stores   *)
(* whatever it is given                                                    *)
EdgeConfigs ==
    {[grid_size |-> g, density_radius_km |-> r,
      distance_threshold_km |-> DISTANCE_THRESHOLD_KM] :
        g \in {GRID_SIZE, 0, -GRID_SIZE}, r \in {DENSITY_RADIUS_KM, 0}}

(* batches that vary the places, the POIs and the configuration            *)
InitGeo == InitWith(Tables(PropertyRows(GeoPlaces, GeoProfiles), MaxProps), PoiMaps, Configs)

(* batches that vary the attributes and the way rows share grid cells      *)
InitGrid ==
    InitWith(Tables(PropertyRows(GridPlaces, GridProfiles), MaxGridProps), GridPoiMaps,
             {[grid_size |-> GRID_SIZE, density_radius_km |-> DENSITY_RADIUS_KM,
               distance_threshold_km |-> DISTANCE_THRESHOLD_KM]})

(* batches and configurations at the edge of the input domain              *)
InitEdge == InitWith(EdgeTables, EdgePoiMaps, EdgeConfigs)

Init == InitGeo \/ InitGrid

---------------------------------------------------------------------------
(* The caller: create_all_features, step by step                           *)

config_unchanged == UNCHANGED <<grid_size, density_radius_km, distance_threshold_km>>

(* variant: the geospatial part starts with the accessibility scores       *)
CreateAllFeatures_scores_first ==
    /\ pc = "idle"
    /\ df' = input_df
    /\ pc' = IF pois # <<>> THEN "scores" ELSE "temporal"
    /\ calls' = <<"create_all_features">>
    /\ UNCHANGED <<input_df, pois>> /\ config_unchanged /\ run_unchanged

(* variant: the geospatial part runs only if some category has a POI       *)
CreateAllFeatures_any_poi ==
    /\ pc = "idle"
    /\ df' = input_df
    /\ pc' = IF \E e \in 1..Len(pois) : Len(pois[e].gdf) > 0
             THEN "distances" ELSE "temporal"
    /\ calls' = <<"create_all_features">>
    /\ UNCHANGED <<input_df, pois>> /\ config_unchanged /\ run_unchanged

(* lines 275-279: copy the input, then branch on `if pois`                 *)
CreateAllFeatures ==
    /\ pc = "idle"
    /\ df' = input_df
    /\ pc' = IF pois # <<>> THEN "distances" ELSE "temporal"
    /\ calls' = <<"create_all_features">>
    /\ UNCHANGED <<input_df, pois>> /\ config_unchanged /\ run_unchanged

(* variant: the method works on the caller's table instead of a copy       *)
Step_in_place(at, result, name, next) ==
    /\ pc = at
    /\ df' = result
    /\ input_df' = result
    /\ calls' = Append(calls, name)
    /\ pc' = next
    /\ UNCHANGED pois /\ config_unchanged /\ run_unchanged

Step(at, result, name, next) ==
    /\ pc = at
    /\ df' = result
    /\ calls' = Append(calls, name)
    /\ pc' = next
    /\ UNCHANGED <<input_df, pois>> /\ config_unchanged /\ run_unchanged

(* an exception leaves the method and its caller: no table is returned     *)
Raise(at) ==
    /\ pc = at
    /\ pc' = "raised"
    /\ UNCHANGED <<df, calls, input_df, pois>> /\ config_unchanged /\ run_unchanged

RunDistances ==
    IF ball_tree_raises(df, pois)
    THEN Raise("distances")
    ELSE Step("distances", calculate_distances(df, pois), "calculate_distances",
              "densities")

RunDensities ==
    IF ball_tree_raises(df, pois)
    THEN Raise("densities")
    ELSE Step("densities", calculate_densities(df, pois), "calculate_densities",
              "grid")

RunGrid ==
    IF grid_raises(df)
    THEN Raise("grid")
    ELSE Step("grid", create_grid_features(df), "create_grid_features", "scores")

RunScores ==
    Step("scores", create_accessibility_scores(df), "create_accessibility_scores",
         "interactions")

RunInteractions ==
    Step("interactions", create_interaction_features(df),
         "create_interaction_features", "temporal")

RunTemporal ==
    \E today \in Dates :
        Step("temporal", add_all_temporal_features(df, today),
             "add_all_temporal_features", "review")

RunReview ==
    Step("review", add_all_review_features(df), "add_all_review_features", "amenity")

RunAmenity ==
    Step("amenity", add_amenity_features(df), "add_amenity_features", "returned")

(* a caller that invokes one method on its table, as the unit tests do     *)
call(method, table) ==
    CASE method = "calculate_distances" -> calculate_distances(table, pois)
      [] method = "calculate_densities" -> calculate_densities(table, pois)
      [] method = "create_grid_features" -> create_grid_features(table)
      [] method = "create_accessibility_scores" -> create_accessibility_scores(table)
      [] method = "create_interaction_features" -> create_interaction_features(table)

(* the two methods that build a BallTree, and the one that aggregates      *)
raises(method, table) ==
    \/ /\ method \in {"calculate_distances", "calculate_densities"}
       /\ ball_tree_raises(table, pois)
    \/ /\ method = "create_grid_features"
       /\ grid_raises(table)

DirectCall ==
    /\ pc = "idle"
    /\ \E m \in Methods :
          IF raises(m, input_df)
          THEN Raise("idle")
          ELSE /\ df' = call(m, input_df)
               /\ calls' = <<m>>
               /\ pc' = "direct_returned"
               /\ UNCHANGED <<input_df, pois>> /\ config_unchanged /\ run_unchanged

Next ==
    \/ CreateAllFeatures
    \/ RunDistances
    \/ RunDensities
    \/ RunGrid
    \/ RunScores
    \/ RunInteractions
    \/ RunTemporal
    \/ RunReview
    \/ RunAmenity
    \/ DirectCall

Spec == Init /\ [][Next]_vars

(* the same callers on the batches that vary the grid cells                *)
SpecGrid == InitGrid /\ [][Next]_vars

(* the same callers on the batches at the edge of the input domain         *)
SpecEdge == InitEdge /\ [][Next]_vars

---------------------------------------------------------------------------
(* RentalPricePipeline.run_full_pipeline (main.py)                         *)

(* the names appended to steps_completed, in the order of the steps        *)
StepNames ==
    <<"data_loading", "data_processing", "poi_extraction", "feature_engineering",
      "model_training", "model_evaluation", "visualization", "report_generation">>

(* the `if` that guards step k                                             *)
step_enabled(k) ==
    CASE k = 1 -> run_args.download_data
      [] k = 3 -> run_args.extract_pois
      [] k \in {5, 6} -> run_args.train_models
      [] k = 7 -> run_args.create_visualizations
      [] OTHER -> TRUE

(* str(e) of the exception a step raises                                   *)
ErrorMessages == {"ValueError", "KeyError"}

features_unchanged ==
    UNCHANGED <<grid_size, density_radius_km, distance_threshold_km,
                input_df, pois, df, pc, calls>>

(* a pipeline object with the default FeatureEngineer, called with any     *)
(* flags                                                                   *)
InitPipeline ==
    /\ grid_size = GRID_SIZE
    /\ density_radius_km = DENSITY_RADIUS_KM
    /\ distance_threshold_km = DISTANCE_THRESHOLD_KM
    /\ input_df = <<[latitude |-> PlaceA.latitude, longitude |-> PlaceA.longitude,
                     price |-> 100, bedrooms |-> 1, bathrooms |-> 1]>>
    /\ pois = <<>>
    /\ df = input_df
    /\ pc = "idle"
    /\ calls = <<>>
    /\ run_args \in [download_data : BOOLEAN, extract_pois : BOOLEAN,
                      train_models : BOOLEAN, create_visualizations : BOOLEAN]
    /\ run_not_started

(* lines 100-110: pipeline_results is created and the try block entered    *)
run_full_pipeline ==
    /\ run_pc = "idle"
    /\ run_pc' = "ready"
    /\ run_step' = 1
    /\ pipeline_results' = [steps_completed |-> <<>>, errors |-> <<>>]
    /\ UNCHANGED run_args /\ features_unchanged

(* the flag of the step is False: the step is passed over                  *)
skip_step ==
    /\ run_pc = "ready"
    /\ run_step <= Len(StepNames)
    /\ ~step_enabled(run_step)
    /\ run_step' = run_step + 1
    /\ UNCHANGED <<run_args, run_pc, pipeline_results>> /\ features_unchanged

(* the method of the step is called                                        *)
call_step ==
    /\ run_pc = "ready"
    /\ run_step <= Len(StepNames)
    /\ step_enabled(run_step)
    /\ run_pc' = "running"
    /\ UNCHANGED <<run_args, run_step, pipeline_results>> /\ features_unchanged

(* the method returns: its name is appended to steps_completed             *)
step_returns ==
    /\ run_pc = "running"
    /\ pipeline_results' =
          [pipeline_results EXCEPT
              !.steps_completed = Append(@, StepNames[run_step])]
    /\ run_step' = run_step + 1
    /\ run_pc' = "ready"
    /\ UNCHANGED run_args /\ features_unchanged

(* variant: the error is recorded and the run goes on with the next step   *)
step_raises_continue ==
    /\ run_pc = "running"
    /\ \E e \in ErrorMessages :
          pipeline_results' = [pipeline_results EXCEPT !.errors = Append(@, e)]
    /\ run_step' = run_step + 1
    /\ run_pc' = "ready"
    /\ UNCHANGED run_args /\ features_unchanged

(* lines 158-161: the method raises; the error is recorded and re-raised   *)
step_raises ==
    /\ run_pc = "running"
    /\ \E e \in ErrorMessages :
          pipeline_results' = [pipeline_results EXCEPT !.errors = Append(@, e)]
    /\ run_pc' = "raised"
    /\ UNCHANGED <<run_args, run_step>> /\ features_unchanged

(* lines 163-167: success is set and pipeline_results returned             *)
return_results ==
    /\ run_pc = "ready"
    /\ run_step = Len(StepNames) + 1
    /\ pipeline_results' =
          SetCol(pipeline_results, "success", pipeline_results.errors = <<>>)
    /\ run_pc' = "returned"
    /\ UNCHANGED <<run_args, run_step>> /\ features_unchanged

NextPipeline ==
    \/ run_full_pipeline
    \/ skip_step
    \/ call_step
    \/ step_returns
    \/ step_raises
    \/ return_results

SpecPipeline == InitPipeline /\ [][NextPipeline]_vars

---------------------------------------------------------------------------
(* Properties                                                              *)

Rows == 1..Len(df)
Entries == 1..Len(pois)
HasCol(col) == col \in Columns(df)
LastCall == IF calls = <<>> THEN "" ELSE calls[Len(calls)]

(* the haversine distances from row i of the input to the POIs of entry e  *)
PoiDistances(i, e) ==
    {haversine(input_df[i], pois[e].gdf[k]) : k \in 1..Len(pois[e].gdf)}

MinOf(S) == CHOOSE d \in S : \A x \in S : d <= x

DensityCorrect ==
    \A e \in Entries :
        (Len(pois[e].gdf) > 0 /\ HasCol(CountCol(pois[e].type))) =>
            \A i \in Rows :
                LET cell == df[i][CountCol(pois[e].type)]
                    within == {k \in 1..Len(pois[e].gdf) :
                                 haversine(input_df[i], pois[e].gdf[k])
                                    <= density_radius_km}
                IN  cell \in Nat /\ cell = Cardinality(within)

(* a property whose POIs all lie exactly at the radius and are counted,    *)
(* next to a property with a POI beyond the radius that is not counted     *)
DensityCorrectWitness ==
    \E e \in Entries : \E i \in Rows : \E j \in Rows :
        /\ HasCol(CountCol(pois[e].type))
        /\ Len(pois[e].gdf) > 0
        /\ \A k \in 1..Len(pois[e].gdf) :
              haversine(input_df[i], pois[e].gdf[k]) = density_radius_km
        /\ df[i][CountCol(pois[e].type)] = Len(pois[e].gdf)
        /\ \E k \in 1..Len(pois[e].gdf) :
              haversine(input_df[j], pois[e].gdf[k]) > density_radius_km
        /\ df[j][CountCol(pois[e].type)] < Len(pois[e].gdf)

(* the mapping without its empty categories                                *)
NonEmptyPois == SelectSeq(pois, LAMBDA entry : Len(entry.gdf) > 0)

(* the column col of a table, row by row                                   *)
ColumnOf(table, col) == [i \in 1..Len(table) |-> table[i][col]]

(* C3: an empty category gives every property a null distance and a count *)
(* of 0, and the columns the two steps return for the other categories are *)
(* what they are when the empty category is not passed at all.             *)
EmptyCategory ==
    \A e \in Entries :
        Len(pois[e].gdf) = 0 =>
            /\ HasCol(DistCol(pois[e].type)) =>
                  \A i \in Rows : IsNaN(df[i][DistCol(pois[e].type)])
            /\ HasCol(CountCol(pois[e].type)) =>
                  \A i \in Rows : df[i][CountCol(pois[e].type)] = 0
            /\ LastCall = "calculate_distances" =>
                  \A o \in Entries :
                      Len(pois[o].gdf) > 0 =>
                          ColumnOf(df, DistCol(pois[o].type)) =
                             ColumnOf(calculate_distances(input_df, NonEmptyPois),
                                      DistCol(pois[o].type))
            /\ LastCall = "calculate_densities" =>
                  \A o \in Entries :
                      Len(pois[o].gdf) > 0 =>
                          ColumnOf(df, CountCol(pois[o].type)) =
                             ColumnOf(calculate_densities(input_df, NonEmptyPois),
                                      CountCol(pois[o].type))

(* an empty category next to a non-empty one, after both steps             *)
EmptyCategoryWitness ==
    \E e \in Entries : \E o \in Entries :
        /\ Len(pois[e].gdf) = 0
        /\ Len(pois[o].gdf) > 0
        /\ HasCol(DistCol(pois[e].type)) /\ HasCol(CountCol(pois[e].type))
        /\ \E i \in Rows : ~IsNaN(df[i][DistCol(pois[o].type)])
        /\ \E i \in Rows : df[i][CountCol(pois[o].type)] > 0

---------------------------------------------------------------------------
(* Grid aggregation                                                        *)

(* the rows that share the grid cell of row i                              *)
CellOf(i) == {j \in Rows : df[j]["grid_id"] = df[i]["grid_id"]}

RECURSIVE SumOver(_, _)
SumOver(J, attr) ==
    IF J = {} THEN 0
    ELSE LET j == CHOOSE x \in J : TRUE
         IN  df[j][attr] + SumOver(J \ {j}, attr)

RECURSIVE SumSqOver(_, _)
SumSqOver(J, attr) ==
    IF J = {} THEN 0
    ELSE LET j == CHOOSE x \in J : TRUE
         IN  df[j][attr] * df[j][attr] + SumSqOver(J \ {j}, attr)

(* the k-th smallest of the values f[j], j in J                            *)
KthSmallest(J, f, k) ==
    CHOOSE v \in {f[j] : j \in J} :
        /\ Cardinality({j \in J : f[j] < v}) < k
        /\ k <= Cardinality({j \in J : f[j] <= v})

(* the median of the values f[j], j in a non-empty J, times scale          *)
MedianOver(J, f, scale) ==
    LET n == Cardinality(J)
    IN  IF n % 2 = 1
        THEN KthSmallest(J, f, (n + 1) \div 2) * scale
        ELSE ((KthSmallest(J, f, n \div 2) + KthSmallest(J, f, n \div 2 + 1)) * scale)
                \div 2

AttrOf(attr) == [j \in Rows |-> df[j][attr]]

(* C4: in the table create_all_features returns for a non-empty POI        *)
(* mapping, no density count, no grid aggregate and no score is null.      *)
NoNullOutsideDistances ==
    (pc = "returned" /\ pois # <<>>) =>
        \A i \in Rows :
            /\ \A t \in PoiTypes :
                  HasCol(CountCol(t)) => df[i][CountCol(t)] \in Nat
            /\ \A c \in GridCols : HasCol(c) => ~IsNaN(df[i][c])
            /\ HasCol("accessibility_score") => df[i]["accessibility_score"] \in Nat
            /\ HasCol("transport_score") => df[i]["transport_score"] \in Nat

(* the rows whose cell holds at least two rows: their standard deviation   *)
(* is defined before the back-fill                                         *)
SharedCellRows == {j \in Rows : Cardinality(CellOf(j)) >= 2}

(* C5: after create_grid_features, a property alone in its grid cell has   *)
(* a price standard deviation equal to the median of the joined column,    *)
(* and that value is neither null nor zero.                                *)
SingletonStdBackfilled ==
    HasCol("grid_price_std") =>
        \A i \in Rows :
            CellOf(i) = {i} =>
                /\ ~IsNaN(df[i]["grid_price_std"])
                /\ Val(df[i]["grid_price_std"]) # 0
                /\ SharedCellRows # {}
                /\ Val(df[i]["grid_price_std"]) =
                      MedianOver(SharedCellRows,
                                 [j \in Rows |->
                                    IF j \in SharedCellRows
                                    THEN Val(df[j]["grid_price_std"]) ELSE 0],
                                 1)

(* C6: the aggregates attached to a property are the statistics of all     *)
(* the rows of the batch that share its grid_id: count, mean, median and   *)
(* (for two rows or more) sample standard deviation of price, mean and     *)
(* median of bedrooms and bathrooms; rows of one cell carry identical      *)
(* aggregates, and a row alone in its cell has count 1 and mean and median *)
(* equal to its own values.                                                *)
GridAggregatesWholeBatch ==
    HasCol("grid_price_mean") =>
        \A i \in Rows :
            LET cell == CellOf(i)
                n == Cardinality(cell)
                sum == SumOver(cell, "price")
                variance == ((n * SumSqOver(cell, "price") - sum * sum) * 10000)
                               \div (n * (n - 1))
                s == Val(df[i]["grid_price_std"])
            IN  /\ df[i]["grid_price_count"] = Num(n)
                /\ \A attr \in {"price", "bedrooms", "bathrooms"} :
                      /\ df[i]["grid_" \o attr \o "_mean"] =
                            Num((SumOver(cell, attr) * 100) \div n)
                      /\ df[i]["grid_" \o attr \o "_median"] =
                            Num(MedianOver(cell, AttrOf(attr), 100))
                      /\ n = 1 =>
                            /\ df[i]["grid_" \o attr \o "_mean"] = Num(df[i][attr] * 100)
                            /\ df[i]["grid_" \o attr \o "_median"] = Num(df[i][attr] * 100)
                /\ n >= 2 => (s * s <= variance /\ variance < (s + 1) * (s + 1))
                /\ \A j \in cell : \A c \in GridCols : df[j][c] = df[i][c]

(* two properties in one cell with prices 100 and 200: both carry mean     *)
(* 150.00 and count 2; a third property is alone in its cell               *)
GridAggregatesWitness ==
    /\ HasCol("grid_price_mean")
    /\ \E i \in Rows : \E j \in Rows : \E k \in Rows :
          /\ CellOf(i) = {i, j}
          /\ df[i]["price"] = 100 /\ df[j]["price"] = 200
          /\ df[i]["grid_price_mean"] = Num(15000)
          /\ df[j]["grid_price_mean"] = Num(15000)
          /\ df[i]["grid_price_count"] = Num(2)
          /\ df[j]["grid_price_count"] = Num(2)
          /\ CellOf(k) = {k}
          /\ df[k]["grid_price_count"] = Num(1)

(* the columns cols of a table                                             *)
Project(table, cols) == [k \in 1..Len(table) |-> [c \in cols |-> table[k][c]]]

(* C7: permuting the rows of the input leaves the grid_id and the per-cell *)
(* aggregates of every property unchanged.                                 *)
GridOrderIndependent ==
    LastCall = "create_grid_features" =>
        \A perm \in Permutations(Rows) :
            Project(create_grid_features([k \in Rows |-> input_df[perm[k]]]),
                    GridCols \cup {"grid_id", "grid_lat", "grid_lon"}) =
            Project([k \in Rows |-> df[perm[k]]],
                    GridCols \cup {"grid_id", "grid_lat", "grid_lon"})

(* a batch of three distinct rows over two cells, grid features attached   *)
GridOrderWitness ==
    /\ LastCall = "create_grid_features"
    /\ Len(df) = 3
    /\ df[1]["price"] # df[2]["price"]
    /\ df[1]["grid_id"] = df[2]["grid_id"]
    /\ df[3]["grid_id"] # df[1]["grid_id"]

---------------------------------------------------------------------------
(* Scores                                                                  *)

DistColsOf(row) == DOMAIN row \cap {DistCol(t) : t \in PoiTypes}

(* a null distance counts as the distance threshold                        *)
Filled(cell) == IF IsNaN(cell) THEN distance_threshold_km ELSE Val(cell)

RECURSIVE FilledSum(_, _)
FilledSum(row, cols) ==
    IF cols = {} THEN 0
    ELSE LET c == CHOOSE x \in cols : TRUE
         IN  Filled(row[c]) + FilledSum(row, cols \ {c})

(* score is 1 / (distance + 0.1), cut to four decimals                     *)
IsInverseOf(score, distance) ==
    /\ score * (distance + EPSILON) <= SCORE_ONE
    /\ SCORE_ONE < (score + 1) * (distance + EPSILON)

(* C8: accessibility_score = 1 / (avg_distance + 0.1), avg_distance being  *)
(* the mean over the distance columns with every null replaced by the      *)
(* threshold, for all distance values >= 0, 0 included.                    *)
AccessibilityFormula ==
    HasCol("accessibility_score") =>
        \A i \in Rows :
            LET cols == DistColsOf(df[i])
                avg == FilledSum(df[i], cols) \div Cardinality(cols)
            IN  IsInverseOf(df[i]["accessibility_score"], avg)

(* C9: when the subway distance column exists, transport_score is          *)
(* 1 / (d + 0.1) with d the subway distance, or the threshold when it is   *)
(* null; a property exactly at a subway POI gets 10.0.                     *)
TransportFormula ==
    (HasCol("transport_score") /\ HasCol(DistCol("subway"))) =>
        \A i \in Rows :
            LET d == Filled(df[i][DistCol("subway")])
            IN  /\ IsInverseOf(df[i]["transport_score"], d)
                /\ d = 0 => df[i]["transport_score"] = 100000

(* one property exactly at a subway POI, another with no subway POI within *)
(* the threshold                                                           *)
TransportWitness ==
    /\ HasCol("transport_score") /\ HasCol(DistCol("subway"))
    /\ \E i \in Rows :
          /\ df[i][DistCol("subway")] = Num(0)
          /\ df[i]["transport_score"] = 100000
    /\ \E j \in Rows :
          /\ IsNaN(df[j][DistCol("subway")])
          /\ df[j]["transport_score"] > 0

DefaultConfig ==
    /\ grid_size = GRID_SIZE
    /\ density_radius_km = DENSITY_RADIUS_KM
    /\ distance_threshold_km = DISTANCE_THRESHOLD_KM

(* the pipeline has returned for a mapping whose subway category is empty, *)
(* under the default settings                                              *)
EmptySubwayReturned ==
    /\ pc = "returned"
    /\ DefaultConfig
    /\ \E e \in Entries : pois[e].type = "subway" /\ Len(pois[e].gdf) = 0

(* C10 as stated: with an empty subway category every property ends with a *)
(* null subway distance, a subway count of 0 and transport_score = 0.      *)
EmptySubwayScoreZero ==
    EmptySubwayReturned =>
        \A i \in Rows :
            /\ IsNaN(df[i][DistCol("subway")])
            /\ df[i][CountCol("subway")] = 0
            /\ df[i]["transport_score"] = 0

(* C10 amended: with an empty subway category every property ends with a   *)
(* null subway distance, a subway count of 0 and                           *)
(* transport_score = 1 / (distance_threshold_km + 0.1).                    *)
EmptySubwayScoreThreshold ==
    EmptySubwayReturned =>
        \A i \in Rows :
            /\ IsNaN(df[i][DistCol("subway")])
            /\ df[i][CountCol("subway")] = 0
            /\ IsInverseOf(df[i]["transport_score"], DISTANCE_THRESHOLD_KM)

(* the pipeline has returned two properties for an empty subway category   *)
(* passed next to a non-empty one                                          *)
EmptySubwayWitness ==
    /\ EmptySubwayReturned
    /\ Len(df) = 2
    /\ Len(pois) = 2
    /\ \A i \in Rows : df[i]["transport_score"] = 990

---------------------------------------------------------------------------
(* Scores without the columns they are computed from                       *)

(* create_accessibility_scores has returned                                *)
ScoresRan == \E k \in 1..Len(calls) : calls[k] = "create_accessibility_scores"

(* C11 as stated: without a subway distance column every property gets     *)
(* transport_score = 0, whether or not other distance columns exist.       *)
NoSubwayTransportZero ==
    (ScoresRan /\ ~HasCol(DistCol("subway"))) =>
        /\ HasCol("transport_score")
        /\ \A i \in Rows : df[i]["transport_score"] = 0

(* C11 amended: without a subway distance column every property gets       *)
(* transport_score = 0 when another category's distance column exists;     *)
(* when the table has no distance column at all, no transport_score column *)
(* is added.                                                               *)
NoSubwayTransportZeroOrAbsent ==
    (ScoresRan /\ ~HasCol(DistCol("subway"))) =>
        IF distance_cols(df) # {}
        THEN /\ HasCol("transport_score")
             /\ \A i \in Rows : df[i]["transport_score"] = 0
        ELSE ~HasCol("transport_score")

(* the pipeline has scored two properties from supermarket distances only  *)
NoSubwayWitness ==
    /\ ScoresRan
    /\ ~HasCol(DistCol("subway"))
    /\ HasCol(DistCol("supermarket"))
    /\ Len(df) = 2
    /\ \A i \in Rows : df[i]["transport_score"] = 0

(* C12 as stated: without any distance column every property still gets    *)
(* accessibility_score = 1 / (distance_threshold_km + 0.1).                *)
NoDistanceAccessibilityDefault ==
    (ScoresRan /\ distance_cols(df) = {}) =>
        /\ HasCol("accessibility_score")
        /\ \A i \in Rows :
              IsInverseOf(df[i]["accessibility_score"], distance_threshold_km)

(* C12 amended: without any distance column create_accessibility_scores    *)
(* returns the table it was given, with no accessibility_score column.     *)
NoDistanceScoresSkipped ==
    (ScoresRan /\ distance_cols(df) = {}) =>
        /\ ~HasCol("accessibility_score")
        /\ df = input_df

(* create_accessibility_scores called on a table of two properties that    *)
(* has no distance column                                                  *)
NoDistanceWitness ==
    /\ LastCall = "create_accessibility_scores"
    /\ pc = "direct_returned"
    /\ distance_cols(df) = {}
    /\ Len(df) = 2
    /\ df = input_df

---------------------------------------------------------------------------
(* Invalid configurations and coordinates                                  *)

InvalidConfig == grid_size <= 0 \/ density_radius_km <= 0

(* C13: a configuration with grid_size <= 0 or density_radius_km <= 0 is   *)
(* rejected before any computation: no method returns a table for it.      *)
InvalidConfigRejected ==
    InvalidConfig =>
        /\ pc \notin {"direct_returned", "returned"}
        /\ \A k \in 1..Len(calls) : calls[k] \notin Methods

HasNonFinitePoi ==
    \E e \in Entries : ~check_array(pois[e].gdf)

(* the mapping without its POIs that have a non-finite coordinate          *)
FinitePois ==
    [e \in Entries |->
        [type |-> pois[e].type,
         gdf |-> SelectSeq(pois[e].gdf, LAMBDA q : check_array(<<q>>))]]

(* C14: a POI with a non-finite coordinate is skipped: no exception leaves *)
(* the batch, and the distances and the counts are those computed from the *)
(* remaining POIs.                                                         *)
NonFinitePoiSkipped ==
    (HasNonFinitePoi /\ check_array(input_df)) =>
        /\ pc # "raised"
        /\ LastCall = "calculate_distances" =>
              df = calculate_distances(input_df, FinitePois)
        /\ (pc = "direct_returned" /\ LastCall = "calculate_densities") =>
              df = calculate_densities(input_df, FinitePois)

NonFiniteRows == {i \in 1..Len(input_df) : ~check_array(<<input_df[i]>>)}

(* C15: a property with a non-finite coordinate does not abort the batch   *)
(* and is not dropped: it keeps its position, with a null in every         *)
(* distance column and 0 in every density column, and the distances of the *)
(* other properties are those they get without it.                         *)
NonFinitePropertyKept ==
    (NonFiniteRows # {} /\ ~HasNonFinitePoi) =>
        /\ pc # "raised"
        /\ Len(df) = Len(input_df)
        /\ \A i \in NonFiniteRows : \A t \in PoiTypes :
              /\ df[i]["latitude"] = input_df[i]["latitude"]
              /\ HasCol(DistCol(t)) => IsNaN(df[i][DistCol(t)])
              /\ HasCol(CountCol(t)) => df[i][CountCol(t)] = 0
        /\ LastCall = "calculate_distances" =>
              \A j \in Rows \ NonFiniteRows :
                  df[j] = calculate_distances(<<input_df[j]>>, pois)[1]

---------------------------------------------------------------------------
(* Rows and inputs                                                         *)

(* C16: the table returned by every step and by the pipeline has one row   *)
(* per input property, in input order: row i carries the attributes of     *)
(* input row i, also when several properties share a grid cell.            *)
RowsPreserved ==
    /\ Len(df) = Len(input_df)
    /\ \A i \in Rows : \A c \in Columns(input_df) : df[i][c] = input_df[i][c]

(* the pipeline has returned three distinct properties of which the first  *)
(* and the third share a grid cell that the second is not in               *)
RowsPreservedWitness ==
    /\ pc = "returned"
    /\ Len(df) = 3
    /\ df[1]["grid_id"] = df[3]["grid_id"]
    /\ df[2]["grid_id"] # df[1]["grid_id"]
    /\ df[1]["price"] # df[3]["price"]
    /\ df[1]["grid_price_count"] = Num(2)

(* C17: no operation changes the property table or a POI collection passed *)
(* to it; the new fields live only in the returned table.                  *)
InputsUnchanged == [][input_df' = input_df /\ pois' = pois]_vars

(* the pipeline has returned a table with new columns for two categories   *)
(* while the caller's table has none of them                               *)
InputsUnchangedWitness ==
    /\ pc = "returned"
    /\ Len(pois) = 2
    /\ \A t \in PoiTypes : HasCol(DistCol(t)) /\ HasCol(CountCol(t))
    /\ HasCol("grid_id") /\ HasCol("accessibility_score")
    /\ Columns(input_df) = {"latitude", "longitude", "price", "bedrooms", "bathrooms"}

(* C18: the pipeline only appends: every column of the input is in the     *)
(* table create_all_features returns, with its input value in every row,   *)
(* whatever columns the input carries.                                     *)
OnlyAppends ==
    pc = "returned" =>
        \A c \in Columns(input_df) :
            /\ HasCol(c)
            /\ \A i \in Rows : df[i][c] = input_df[i][c]

---------------------------------------------------------------------------
(* Determinism and order of the steps                                      *)

(* C19: the table create_all_features returns is the one any other run on  *)
(* the same table, POIs and configuration returns, at whatever date that   *)
(* run executes.                                                           *)
Deterministic ==
    pc = "returned" =>
        \A today \in Dates : df = create_all_features(input_df, pois, today)

(* create_all_features and the steps it invokes when POIs are supplied     *)
GeospatialOrder ==
    <<"create_all_features", "calculate_distances", "calculate_densities",
      "create_grid_features", "create_accessibility_scores",
      "create_interaction_features">>

InPipeline == calls # <<>> /\ calls[1] = "create_all_features" /\ pois # <<>>

(* C20: with POIs supplied the geospatial steps run in the order           *)
(* distances, densities, grid, scores, interactions, each on the previous  *)
(* step's output: scoring starts with every category's distance column in  *)
(* place, interaction building with accessibility_score in place.          *)
PipelineOrder ==
    InPipeline =>
        /\ \A k \in 1..Len(calls) :
              k <= Len(GeospatialOrder) => calls[k] = GeospatialOrder[k]
        /\ pc = "distances" => Len(calls) = 1 /\ df = input_df
        /\ pc = "densities" =>
              Len(calls) = 2 /\ df = calculate_distances(input_df, pois)
        /\ pc = "grid" =>
              /\ Len(calls) = 3
              /\ df = calculate_densities(calculate_distances(input_df, pois), pois)
        /\ pc = "scores" =>
              /\ Len(calls) = 4
              /\ \A e \in Entries : HasCol(DistCol(pois[e].type))
              /\ df = create_grid_features(
                         calculate_densities(calculate_distances(input_df, pois), pois))
        /\ pc = "interactions" =>
              /\ Len(calls) = 5
              /\ HasCol("accessibility_score")
              /\ df = create_accessibility_scores(
                         create_grid_features(
                           calculate_densities(calculate_distances(input_df, pois),
                                               pois)))
        /\ pc = "temporal" =>
              Len(calls) = 6 /\ df = geospatial_features(input_df, pois)

(* the five geospatial steps have returned, in order, for two categories   *)
PipelineOrderWitness ==
    /\ pc = "temporal"
    /\ calls = GeospatialOrder
    /\ Len(pois) = 2
    /\ HasCol("accessibility_score")
    /\ HasCol("price_transport_interaction")

---------------------------------------------------------------------------
(* Independence of the categories                                          *)

(* the caller's mapping with its entries in the order perm                 *)
Reordered(perm) == [e \in Entries |-> pois[perm[e]]]

ScoreCols == {"accessibility_score", "transport_score"}

(* C21: the categories are independent: each distance and each density     *)
(* column is what its category gives alone on the input table, and the     *)
(* distance columns, the density columns and the two scores are the same   *)
(* for every order of the categories.                                      *)
CategoriesIndependent ==
    /\ LastCall = "calculate_distances" =>
          /\ \A e \in Entries :
                ColumnOf(df, DistCol(pois[e].type)) =
                ColumnOf(calculate_distances(input_df, <<pois[e]>>),
                         DistCol(pois[e].type))
          /\ \A perm \in Permutations(Entries) :
                df = calculate_distances(input_df, Reordered(perm))
    /\ (LastCall = "calculate_densities" /\ pc = "direct_returned") =>
          /\ \A e \in Entries :
                ColumnOf(df, CountCol(pois[e].type)) =
                ColumnOf(calculate_densities(input_df, <<pois[e]>>),
                         CountCol(pois[e].type))
          /\ \A perm \in Permutations(Entries) :
                df = calculate_densities(input_df, Reordered(perm))
    /\ (LastCall = "create_accessibility_scores" /\ InPipeline) =>
          \A perm \in Permutations(Entries) :
              Project(df, ScoreCols) =
              Project(create_accessibility_scores(
                          calculate_distances(input_df, Reordered(perm))),
                      ScoreCols)

(* the distances to two non-empty categories that differ for a property    *)
CategoriesIndependentWitness ==
    /\ LastCall = "calculate_distances"
    /\ Len(pois) = 2
    /\ \A e \in Entries : Len(pois[e].gdf) > 0
    /\ \E i \in Rows :
          /\ ~IsNaN(df[i][DistCol("subway")])
          /\ df[i][DistCol("subway")] # df[i][DistCol("supermarket")]

---------------------------------------------------------------------------
(* Interaction features                                                    *)

(* the table create_interaction_features was called on                     *)
InteractionInput ==
    IF pc = "direct_returned"
    THEN input_df
    ELSE create_accessibility_scores(
             create_grid_features(
                 calculate_densities(calculate_distances(input_df, pois), pois)))

InteractionCols ==
    {"price_per_bedroom_accessibility", "bedroom_bathroom_ratio",
     "price_transport_interaction"}

---------------------------------------------------------------------------
(* Ranges and consistency of the geospatial features                       *)

(* C23: once create_accessibility_scores has run on a table with at least  *)
(* one distance column, every property has accessibility_score > 0 and     *)
(* transport_score >= 0.                                                   *)
ScoresPositive ==
    (ScoresRan /\ distance_cols(df) # {}) =>
        \A i \in Rows :
            /\ df[i]["accessibility_score"] > 0
            /\ df[i]["transport_score"] >= 0

(* scores of two properties, one at a POI and one with no POI within the   *)
(* threshold in any category                                               *)
ScoresPositiveWitness ==
    /\ ScoresRan
    /\ Len(df) = 2
    /\ \E i \in Rows : \E c \in distance_cols(df) : df[i][c] = Num(0)
    /\ \E j \in Rows :
          /\ \A c \in distance_cols(df) : IsNaN(df[j][c])
          /\ df[j]["accessibility_score"] > 0

(* calculate_distances has just returned under the default settings        *)
DistancesReturnedDefault == LastCall = "calculate_distances" /\ DefaultConfig

---------------------------------------------------------------------------
(* Column names                                                            *)

Attributes == {"price", "bedrooms", "bathrooms"}

(* the statistics taken of an attribute                                    *)
StatsOf(attr) == IF attr = "price" THEN {"mean", "median", "std", "count"}
                 ELSE {"mean", "median"}

GeospatialReturned == pc = "returned" /\ pois # <<>>

(* C25 as stated: the appended columns are named dist_nearest_<category>_km, *)
(* count_<category>_within_radius and grid_<stat>_<attribute>.             *)
FeatureVectorNames ==
    GeospatialReturned =>
        /\ \A e \in Entries :
              /\ HasCol("dist_nearest_" \o pois[e].type \o "_km")
              /\ HasCol("count_" \o pois[e].type \o "_within_radius")
        /\ \A attr \in Attributes : \A stat \in StatsOf(attr) :
              HasCol("grid_" \o stat \o "_" \o attr)

(* C25 amended: the appended columns are named dist_nearest_<category>_km, *)
(* count_<category>_1km and grid_<attribute>_<stat>; no column has one of  *)
(* the other names.                                                        *)
EngineColumnNames ==
    GeospatialReturned =>
        /\ \A e \in Entries :
              /\ HasCol("dist_nearest_" \o pois[e].type \o "_km")
              /\ HasCol("count_" \o pois[e].type \o "_1km")
              /\ ~HasCol("count_" \o pois[e].type \o "_within_radius")
        /\ \A attr \in Attributes : \A stat \in StatsOf(attr) :
              /\ HasCol("grid_" \o attr \o "_" \o stat)
              /\ ~HasCol("grid_" \o stat \o "_" \o attr)

(* the pipeline has returned the columns of two categories and of a cell   *)
(* shared by two properties                                                *)
EngineColumnNamesWitness ==
    /\ GeospatialReturned
    /\ Len(pois) = 2
    /\ HasCol("count_subway_1km") /\ HasCol("count_supermarket_1km")
    /\ \E i \in Rows : df[i]["grid_price_count"] = Num(2)

---------------------------------------------------------------------------
(* Grid cells                                                              *)

(* (round(lat / grid_size), round(lon / grid_size)) of row i of the input  *)
RoundedPair(i) ==
    <<round_half_even(input_df[i]["latitude"], grid_size),
      round_half_even(input_df[i]["longitude"], grid_size)>>

(* C26: grid_lat and grid_lon are the rounded quotients times grid_size,   *)
(* and two properties have the same grid_id if and only if their pairs of  *)
(* rounded quotients are equal.                                            *)
GridIdIffSameCell ==
    (LastCall = "create_grid_features" /\ grid_size > 0 /\ check_array(input_df)) =>
        /\ \A i \in Rows :
              /\ df[i]["grid_lat"] = RoundedPair(i)[1] * grid_size
              /\ df[i]["grid_lon"] = RoundedPair(i)[2] * grid_size
        /\ \A i \in Rows : \A j \in Rows :
              (df[i]["grid_id"] = df[j]["grid_id"]) <=> (RoundedPair(i) = RoundedPair(j))

---------------------------------------------------------------------------
(* Relations between the features                                          *)

(* row i is nearer than row j in one distance column and as near in every  *)
(* other one, a null counting as the distance threshold                    *)
NearerInOne(i, j) ==
    \E c \in distance_cols(df) :
        /\ Filled(df[i][c]) < Filled(df[j][c])
        /\ \A o \in distance_cols(df) \ {c} : Filled(df[i][o]) = Filled(df[j][o])

(* C27: of two properties whose distances are equal except for one that is *)
(* smaller for the first, the first has an accessibility_score at least as *)
(* large, for all distances >= 0, 0 included.                              *)
AccessibilityMonotone ==
    HasCol("accessibility_score") =>
        \A i \in Rows : \A j \in Rows :
            NearerInOne(i, j) =>
                df[i]["accessibility_score"] >= df[j]["accessibility_score"]

(* C28: for a non-empty category and a radius that is at most the          *)
(* threshold, the count is >= 1 exactly when the distance is present and   *)
(* at most density_radius_km, and the count never exceeds the number of    *)
(* POIs of the category.                                                   *)
DistanceDensityConsistent ==
    \A e \in Entries :
        (/\ Len(pois[e].gdf) > 0
         /\ HasCol(DistCol(pois[e].type))
         /\ HasCol(CountCol(pois[e].type))
         /\ density_radius_km <= distance_threshold_km) =>
            \A i \in Rows :
                LET dist == df[i][DistCol(pois[e].type)]
                    count == df[i][CountCol(pois[e].type)]
                IN  /\ (count >= 1) <=> (~IsNaN(dist) /\ Val(dist) <= density_radius_km)
                    /\ count <= Len(pois[e].gdf)

(* two properties with both columns: one has its nearest subway POI        *)
(* exactly at the radius and counts it, the other has it within the        *)
(* threshold but beyond the radius and counts none                         *)
DistanceDensityWitness ==
    /\ HasCol(DistCol("subway")) /\ HasCol(CountCol("subway"))
    /\ \E i \in Rows :
          /\ df[i][DistCol("subway")] = Num(density_radius_km)
          /\ df[i][CountCol("subway")] = 1
    /\ \E j \in Rows :
          /\ ~IsNaN(df[j][DistCol("subway")])
          /\ Val(df[j][DistCol("subway")]) > density_radius_km
          /\ df[j][CountCol("subway")] = 0

---------------------------------------------------------------------------
(* The guard on the POI mapping                                            *)

GeospatialCols ==
    {DistCol(t) : t \in PoiTypes} \cup {CountCol(t) : t \in PoiTypes}
    \cup GridCols \cup {"grid_lat", "grid_lon", "grid_id"}
    \cup ScoreCols \cup InteractionCols

LaterSteps ==
    <<"add_all_temporal_features", "add_all_review_features", "add_amenity_features">>

(* C29: create_all_features runs the five geospatial steps exactly when    *)
(* the mapping is non-empty: without a mapping the returned table has no   *)
(* geospatial column while the temporal, review and amenity steps have     *)
(* run; with a mapping all five have run, even if every category is empty. *)
GeospatialOnlyWithPois ==
    pc = "returned" =>
        IF pois = <<>>
        THEN /\ calls = <<"create_all_features">> \o LaterSteps
             /\ Columns(df) \cap GeospatialCols = {}
             /\ HasCol("season")
        ELSE /\ calls = GeospatialOrder \o LaterSteps
             /\ \A e \in Entries :
                   HasCol(DistCol(pois[e].type)) /\ HasCol(CountCol(pois[e].type))
             /\ GridCols \cup {"grid_lat", "grid_lon", "grid_id"} \subseteq Columns(df)
             /\ ScoreCols \subseteq Columns(df)
             /\ HasCol("bedroom_bathroom_ratio")
             /\ HasCol("season")

(* the pipeline has returned for a mapping of two categories that are both *)
(* empty                                                                   *)
GeospatialOnlyWithPoisWitness ==
    /\ pc = "returned"
    /\ Len(pois) = 2
    /\ \A e \in Entries : Len(pois[e].gdf) = 0
    /\ HasCol("accessibility_score")
    /\ \A i \in Rows : IsNaN(df[i][DistCol("subway")])

---------------------------------------------------------------------------
(* run_full_pipeline                                                       *)

StepIndex(name) == CHOOSE k \in 1..Len(StepNames) : StepNames[k] = name

Completed == pipeline_results.steps_completed

IsCompleted(name) == \E a \in 1..Len(Completed) : Completed[a] = name

(* C30: steps_completed is a subsequence of the fixed order; it holds only *)
(* names of steps that have returned; model_evaluation is in it only with  *)
(* model_training; once a step has raised, one error is recorded, nothing  *)
(* more runs and no result is returned; a returned result has no error and *)
(* success = True.                                                         *)
StepsCompletedInOrder ==
    /\ \A a \in 1..Len(Completed) :
          /\ \E k \in 1..Len(StepNames) : Completed[a] = StepNames[k]
          /\ StepIndex(Completed[a]) < run_step
          /\ step_enabled(StepIndex(Completed[a]))
          /\ \A b \in (a + 1)..Len(Completed) :
                StepIndex(Completed[a]) < StepIndex(Completed[b])
    /\ IsCompleted("model_evaluation") => IsCompleted("model_training")
    /\ pipeline_results.errors # <<>> <=> run_pc = "raised"
    /\ run_pc = "raised" =>
          /\ Len(pipeline_results.errors) = 1
          /\ ~ENABLED NextPipeline
          /\ "success" \notin DOMAIN pipeline_results
    /\ run_pc = "returned" =>
          /\ pipeline_results.errors = <<>>
          /\ pipeline_results["success"] = TRUE
          /\ \A k \in 1..Len(StepNames) : step_enabled(k) <=> IsCompleted(StepNames[k])

(* a run without model training has returned: six steps are completed      *)
StepsCompletedWitness ==
    /\ run_pc = "returned"
    /\ ~run_args.train_models
    /\ Completed = <<"data_loading", "data_processing", "poi_extraction",
                     "feature_engineering", "visualization", "report_generation">>
    /\ pipeline_results["success"] = TRUE

====
